---- MODULE Spec2Model ----
(***************************************************************************)
(* Model of fun-with-wifi/wifi_fuzzer.py: a straight-line script that      *)
(* loads a capture (rdpcap), takes its first frame, assigns fields of the  *)
(* frame's 802.11 information elements and header, and replays the frame   *)
(* in a loop (sendp ... loop=1, inter=0.1).                                *)
(*                                                                         *)
(* pc names the source line about to be executed.  A frame is a record     *)
(* [hdr, elts]; an information element is a record [ID, len, info] whose   *)
(* fields are independent (scapy keeps an explicitly set len as it is).    *)
(* Bytes are numbers 0..255 and byte strings are sequences of them.        *)
(* Exceptions are named as the specification's error taxonomy names them:  *)
(* rdpcap raising is CaptureReadError, frames[0] raising on an empty list  *)
(* is EmptyCaptureError, the raw socket failing to open in sendp is        *)
(* InterfaceError; a layer index that is not there is IndexError.          *)
(***************************************************************************)
EXTENDS Integers, Sequences, FiniteSets, TLC

VARIABLES
    pc,          \* source line about to run, or "done" / "error"
    pcap,        \* base_packet.pcapng as rdpcap finds it: [status, frames (byte strings)]
    frames,      \* the list rdpcap returned (parsed frames), line 21
    frame,       \* reference into frames (index), 0 = unbound, line 22
    rates,       \* local variable rates, line 40
    err,         \* exception that ended the script, "none" if none
    ifstate,     \* what opening the raw socket on iface found, line 50
    loop,        \* sendp's loop counter
    sent,        \* number of frames written to the interface (saturates)
    wire_first,  \* bytes of the first frame written
    wire_last,   \* bytes of the latest frame written
    interrupted  \* a KeyboardInterrupt ended the send loop

vars == <<pc, pcap, frames, frame, rates, err, ifstate, loop, sent,
          wire_first, wire_last, interrupted>>

----------------------------------------------------------------------------
(* Bounds of the model *)

MaxElts == 5

MaxFrames == 2

MaxSent == 3

----------------------------------------------------------------------------
(* Literals of the script, as the bytes scapy puts on the wire *)

\* "A"*32, line 27
ssid_name == [i \in 1..32 |-> 65]

\* frame[Dot11Elt][0].len = 32, line 29
SsidLen == 32

\* "40:e3:d6:bf:dd:01" through MACField, line 30
NewAddr2 == <<64, 227, 214, 191, 221, 1>>

\* 'SSID' through Dot11Elt's ID enumeration, line 43
SsidId == 0

\* "ABCD", line 44
Abcd == <<65, 66, 67, 68>>

\* frame[Dot11Elt][1].len = 4, line 45
AbcdLen == 4

\* "HR \x00\x00$", line 46
CountryInfo == <<72, 82, 32, 0, 0, 36>>

\* loop=1, line 50
SendpLoop == 1

----------------------------------------------------------------------------
(* Serialising and parsing, as sendp and rdpcap do through scapy *)

Min(a, b) == IF a < b THEN a ELSE b

\* length of the fixed header: three addresses and sequence control
HdrLen == 3 * 6 + 2

SerializeHdr(h) == h.addr1 \o h.addr2 \o h.addr3 \o <<h.SC % 256, h.SC \div 256>>

\* ID byte, length byte as stored, then all of info
SerializeElt(e) == <<e.ID % 256, e.len % 256>> \o e.info

RECURSIVE SerializeElts(_)
SerializeElts(es) ==
    IF es = <<>> THEN <<>>
    ELSE SerializeElt(Head(es)) \o SerializeElts(Tail(es))

Serialize(f) == SerializeHdr(f.hdr) \o SerializeElts(f.elts)

ParseHdr(b) ==
    [addr1 |-> SubSeq(b, 1, 6), addr2 |-> SubSeq(b, 7, 12),
     addr3 |-> SubSeq(b, 13, 18), SC |-> b[19] + 256 * b[20]]

\* each element takes as many info bytes as its length byte says, or what is left
RECURSIVE ParseElts(_)
ParseElts(b) ==
    IF Len(b) < 2 THEN <<>>
    ELSE LET take == Min(b[2], Len(b) - 2)
         IN  <<[ID |-> b[1], len |-> b[2], info |-> SubSeq(b, 3, 2 + take)]>>
             \o ParseElts(SubSeq(b, 3 + take, Len(b)))

ParseFrame(b) == [hdr |-> ParseHdr(b), elts |-> ParseElts(SubSeq(b, HdrLen + 1, Len(b)))]

----------------------------------------------------------------------------
(* The captures the script may find on disk *)

Broadcast == <<255, 255, 255, 255, 255, 255>>

OtherAddr == <<2, 0, 0, 0, 0, 1>>

Headers ==
    {[addr1 |-> Broadcast, addr2 |-> a, addr3 |-> a, SC |-> 4660] : a \in {NewAddr2, OtherAddr}}

\* a supported-rates and a country element, each with len = |info|
EltTemplates ==
    {[ID |-> 1, len |-> 2, info |-> <<130, 132>>],
     [ID |-> 7, len |-> 6, info |-> <<85, 83, 32, 1, 11, 30>>]}

EltSeqs == UNION {[1..n -> EltTemplates] : n \in 0..MaxElts}

CapturedFrames == {[hdr |-> h, elts |-> es] : h \in Headers, es \in EltSeqs}

\* a capture may have been cut short (snap length): the last byte is missing
Chop(b) == SubSeq(b, 1, Len(b) - 1)

DiskFrames ==
    {Serialize(f) : f \in CapturedFrames}
    \cup {Chop(Serialize(f)) : f \in {g \in CapturedFrames : g.elts # <<>>}}

LaterFrame ==
    Serialize([hdr |-> [addr1 |-> Broadcast, addr2 |-> OtherAddr, addr3 |-> OtherAddr, SC |-> 0],
               elts |-> <<[ID |-> 0, len |-> 1, info |-> <<120>>]>>])

Captures ==
    {<<>>} \cup
    {[i \in 1..n |-> IF i = 1 THEN b ELSE LaterFrame] : b \in DiskFrames, n \in 1..MaxFrames}

\* "missing": no such file or not readable; "corrupt": not a capture format;
\* rdpcap raises on both.  "ok": a capture of zero or more frames
PcapFiles ==
    {[status |-> s, frames |-> <<>>] : s \in {"missing", "corrupt"}}
    \cup {[status |-> "ok", frames |-> c] : c \in Captures}

Init ==
    /\ pc = "l21"
    /\ pcap = [status |-> "unread", frames |-> <<>>]
    /\ frames = <<>>
    /\ frame = 0
    /\ rates = <<>>
    /\ err = "none"
    /\ ifstate = "unknown"
    /\ loop = 0
    /\ sent = 0
    /\ wire_first = <<>>
    /\ wire_last = <<>>
    /\ interrupted = FALSE

----------------------------------------------------------------------------
(* Helpers for the statements *)

Raise(e) == pc' = "error" /\ err' = e

Goto(l) == pc' = l /\ err' = err

\* frame[Dot11Elt][k] exists
HasElt(k) == k < Len(frames[frame].elts)

\* frame[Dot11Elt][k]
Elt(k) == frames[frame].elts[k + 1]

\* frame[Dot11Elt][k].<field> = value, then go on at line next
SetEltField(k, field, value, next) ==
    IF HasElt(k)
    THEN /\ frames' = [frames EXCEPT ![frame].elts[k + 1][field] = value]
         /\ Goto(next)
    ELSE /\ Raise("IndexError")
         /\ frames' = frames

\* frame[Dot11Elt][dst].<field> = frame[Dot11Elt][src].<field>
CopyEltField(dst, src, field, next) ==
    IF HasElt(src)
    THEN SetEltField(dst, field, Elt(src)[field], next)
    ELSE /\ Raise("IndexError")
         /\ frames' = frames

\* sendp: "elif not loop: loop = -1"
LoopCount(loopArg) == IF loopArg = 0 THEN -1 ELSE loopArg

----------------------------------------------------------------------------
(* The statements of the script *)

\* mutant: a capture that cannot be read is taken for an empty one
Rdpcap_SwallowError ==
    /\ pc = "l21"
    /\ \E file \in PcapFiles :
          /\ pcap' = file
          /\ frames' = IF file.status = "ok"
                       THEN [i \in 1..Len(file.frames) |-> ParseFrame(file.frames[i])]
                       ELSE <<>>
    /\ Goto("l22")
    /\ UNCHANGED <<frame, rates, ifstate, loop, sent, wire_first, wire_last, interrupted>>

\* frames = rdpcap("base_packet.pcapng")
Rdpcap ==
    /\ pc = "l21"
    /\ \E file \in PcapFiles :
          /\ pcap' = file
          /\ IF file.status = "ok"
             THEN /\ frames' = [i \in 1..Len(file.frames) |-> ParseFrame(file.frames[i])]
                  /\ Goto("l22")
             ELSE /\ Raise("CaptureReadError")
                  /\ frames' = frames
    /\ UNCHANGED <<frame, rates, ifstate, loop, sent, wire_first, wire_last, interrupted>>

\* mutant: an empty capture is read again instead of ending the script
SelectFirst_Retry ==
    /\ pc = "l22"
    /\ IF frames # <<>>
       THEN frame' = 1 /\ Goto("l28")
       ELSE frame' = frame /\ pc' = "l21" /\ err' = "EmptyCaptureError"
    /\ UNCHANGED <<pcap, frames, rates, ifstate, loop, sent, wire_first, wire_last, interrupted>>

\* mutant: frames[-1] instead of frames[0]
SelectFirst_Last ==
    /\ pc = "l22"
    /\ IF frames # <<>>
       THEN frame' = Len(frames) /\ Goto("l28")
       ELSE frame' = frame /\ Raise("EmptyCaptureError")
    /\ UNCHANGED <<pcap, frames, rates, ifstate, loop, sent, wire_first, wire_last, interrupted>>

\* frame = frames[0]
SelectFirst ==
    /\ pc = "l22"
    /\ IF frames # <<>>
       THEN frame' = 1 /\ Goto("l28")
       ELSE frame' = frame /\ Raise("EmptyCaptureError")
    /\ UNCHANGED <<pcap, frames, rates, ifstate, loop, sent, wire_first, wire_last, interrupted>>

\* frame[Dot11Elt][0].info = ssid_name
L28 ==
    /\ pc = "l28"
    /\ SetEltField(0, "info", ssid_name, "l29")
    /\ UNCHANGED <<pcap, frame, rates, ifstate, loop, sent, wire_first, wire_last, interrupted>>

\* mutant: the length is set one short of the payload
L29_OffByOne ==
    /\ pc = "l29"
    /\ SetEltField(0, "len", SsidLen - 1, "l30")
    /\ UNCHANGED <<pcap, frame, rates, ifstate, loop, sent, wire_first, wire_last, interrupted>>

\* frame[Dot11Elt][0].len = 32
L29 ==
    /\ pc = "l29"
    /\ SetEltField(0, "len", SsidLen, "l30")
    /\ UNCHANGED <<pcap, frame, rates, ifstate, loop, sent, wire_first, wire_last, interrupted>>

\* mutant: the address is assigned to addr3 as well
L30_Addr3 ==
    /\ pc = "l30"
    /\ frames' = [frames EXCEPT ![frame].hdr.addr2 = NewAddr2, ![frame].hdr.addr3 = NewAddr2]
    /\ Goto("l38")
    /\ UNCHANGED <<pcap, frame, rates, ifstate, loop, sent, wire_first, wire_last, interrupted>>

\* frame.addr2 = "40:e3:d6:bf:dd:01"
L30 ==
    /\ pc = "l30"
    /\ frames' = [frames EXCEPT ![frame].hdr.addr2 = NewAddr2]
    /\ Goto("l38")
    /\ UNCHANGED <<pcap, frame, rates, ifstate, loop, sent, wire_first, wire_last, interrupted>>

\* frame[Dot11Elt][0].ID = frame[Dot11Elt][1].ID
L38 ==
    /\ pc = "l38"
    /\ CopyEltField(0, 1, "ID", "l39")
    /\ UNCHANGED <<pcap, frame, rates, ifstate, loop, sent, wire_first, wire_last, interrupted>>

\* frame[Dot11Elt][0].info = frame[Dot11Elt][1].info
L39 ==
    /\ pc = "l39"
    /\ CopyEltField(0, 1, "info", "l40")
    /\ UNCHANGED <<pcap, frame, rates, ifstate, loop, sent, wire_first, wire_last, interrupted>>

\* rates = frame[Dot11Elt][0].info
L40 ==
    /\ pc = "l40"
    /\ IF HasElt(0)
       THEN rates' = Elt(0).info /\ Goto("l41")
       ELSE rates' = rates /\ Raise("IndexError")
    /\ UNCHANGED <<pcap, frames, frame, ifstate, loop, sent, wire_first, wire_last, interrupted>>

\* mutant: the length is copied from element 0 itself
L41_KeepLen ==
    /\ pc = "l41"
    /\ CopyEltField(0, 0, "len", "l43")
    /\ UNCHANGED <<pcap, frame, rates, ifstate, loop, sent, wire_first, wire_last, interrupted>>

\* frame[Dot11Elt][0].len = frame[Dot11Elt][1].len
L41 ==
    /\ pc = "l41"
    /\ CopyEltField(0, 1, "len", "l43")
    /\ UNCHANGED <<pcap, frame, rates, ifstate, loop, sent, wire_first, wire_last, interrupted>>

\* frame[Dot11Elt][1].ID = 'SSID'
L43 ==
    /\ pc = "l43"
    /\ SetEltField(1, "ID", SsidId, "l44")
    /\ UNCHANGED <<pcap, frame, rates, ifstate, loop, sent, wire_first, wire_last, interrupted>>

\* frame[Dot11Elt][1].info = "ABCD"
L44 ==
    /\ pc = "l44"
    /\ SetEltField(1, "info", Abcd, "l45")
    /\ UNCHANGED <<pcap, frame, rates, ifstate, loop, sent, wire_first, wire_last, interrupted>>

\* mutant: the length does not match "ABCD"
L45_WrongLen ==
    /\ pc = "l45"
    /\ SetEltField(1, "len", AbcdLen + 1, "l46")
    /\ UNCHANGED <<pcap, frame, rates, ifstate, loop, sent, wire_first, wire_last, interrupted>>

\* frame[Dot11Elt][1].len = 4
L45 ==
    /\ pc = "l45"
    /\ SetEltField(1, "len", AbcdLen, "l46")
    /\ UNCHANGED <<pcap, frame, rates, ifstate, loop, sent, wire_first, wire_last, interrupted>>

\* frame[Dot11Elt][4].info = "HR \x00\x00$"
L46 ==
    /\ pc = "l46"
    /\ SetEltField(4, "info", CountryInfo, "l50")
    /\ UNCHANGED <<pcap, frame, rates, ifstate, loop, sent, wire_first, wire_last, interrupted>>

\* sendp(frame, iface=iface, loop=loopArg, inter=0.1): the raw socket on
\* iface is opened before anything is sent; opening fails when the interface
\* does not exist or the process may not open raw sockets
SendpCall(loopArg) ==
    /\ pc = "l50"
    /\ \E st \in {"up", "nodev", "noperm"} :
          /\ ifstate' = st
          /\ IF st = "up"
             THEN /\ loop' = LoopCount(loopArg)
                  /\ Goto("sendp_send")
             ELSE /\ loop' = loop
                  /\ Raise("InterfaceError")
    /\ UNCHANGED <<pcap, frames, frame, rates, sent, wire_first, wire_last, interrupted>>

\* mutant: loop=0, the frame is sent once
Sendp_NoLoop == SendpCall(0)

\* mutant: sending starts whether or not the socket could be opened
Sendp_Unchecked ==
    /\ pc = "l50"
    /\ \E st \in {"up", "nodev", "noperm"} :
          /\ ifstate' = st
          /\ loop' = LoopCount(SendpLoop)
          /\ Goto("sendp_send")
    /\ UNCHANGED <<pcap, frames, frame, rates, sent, wire_first, wire_last, interrupted>>

Sendp == SendpCall(SendpLoop)

\* mutant: the frame is tweaked after each write
SendFrame_Tweak ==
    /\ pc = "sendp_send"
    /\ wire_last' = Serialize(frames[frame])
    /\ wire_first' = IF sent = 0 THEN Serialize(frames[frame]) ELSE wire_first
    /\ sent' = Min(sent + 1, MaxSent)
    /\ frames' = [frames EXCEPT ![frame].hdr.SC = (@ + 16) % 65536]
    /\ Goto("sendp_sleep")
    /\ UNCHANGED <<pcap, frame, rates, ifstate, loop, interrupted>>

\* s.send(p): the frame is serialised as it is now and written
SendFrame ==
    /\ pc = "sendp_send"
    /\ wire_last' = Serialize(frames[frame])
    /\ wire_first' = IF sent = 0 THEN Serialize(frames[frame]) ELSE wire_first
    /\ sent' = Min(sent + 1, MaxSent)
    /\ Goto("sendp_sleep")
    /\ UNCHANGED <<pcap, frames, frame, rates, ifstate, loop, interrupted>>

\* time.sleep(inter); if loop < 0: loop += 1; while loop
Sleep ==
    /\ pc = "sendp_sleep"
    /\ loop' = IF loop < 0 THEN loop + 1 ELSE loop
    /\ Goto(IF loop' # 0 THEN "sendp_send" ELSE "done")
    /\ UNCHANGED <<pcap, frames, frame, rates, ifstate, sent, wire_first, wire_last, interrupted>>

\* except KeyboardInterrupt: pass -- the operator's interrupt ends the loop
Interrupt ==
    /\ pc \in {"sendp_send", "sendp_sleep"}
    /\ interrupted' = TRUE
    /\ Goto("done")
    /\ UNCHANGED <<pcap, frames, frame, rates, ifstate, loop, sent, wire_first, wire_last>>

\* the statements of the script, in source order
Script ==
    \/ Rdpcap \/ SelectFirst
    \/ L28 \/ L29 \/ L30
    \/ L38 \/ L39 \/ L40 \/ L41
    \/ L43 \/ L44 \/ L45 \/ L46
    \/ Sendp \/ SendFrame \/ Sleep

Next == Script \/ Interrupt

Spec == Init /\ [][Next]_vars

\* the interpreter keeps executing the script: a statement that can run, runs
FairSpec == Spec /\ WF_vars(Script)

----------------------------------------------------------------------------
(* Vocabulary of the properties *)

\* the capture as rdpcap parses it from disk
ParsedCapture == [i \in 1..Len(pcap.frames) |-> ParseFrame(pcap.frames[i])]

\* the first frame as it was loaded
Loaded == ParsedCapture[1]

\* the selected frame as it is now
Cur == frames[frame]

WellFormedElt(e) == e.len = Len(e.info)

WellFormedFrame(f) == \A k \in 1..Len(f.elts) : WellFormedElt(f.elts[k])

\* the information elements when line 38 is reached
PreSwapElts == [Loaded.elts EXCEPT ![1].info = ssid_name, ![1].len = SsidLen]

InSendLoop == pc \in {"sendp_send", "sendp_sleep"}

\* lines 28 to 46
Mutating == {"l28", "l29", "l30", "l38", "l39", "l40", "l41", "l43", "l44", "l45", "l46"}

----------------------------------------------------------------------------
(* C1 as stated: once lines 38-45 have run, element 0 holds the triple      *)
(* element 1 held before them, element 1 holds the triple element 0 held    *)
(* before them, and every other element is as before.                       *)
C1_ExactSwap ==
    pc = "l46" =>
        /\ Cur.elts[1] = PreSwapElts[2]
        /\ Cur.elts[2] = PreSwapElts[1]
        /\ \A k \in 3..Len(Cur.elts) : Cur.elts[k] = PreSwapElts[k]

(* C1 amended: lines 38-45 copy element 1's {id, payload, length} into      *)
(* element 0 exactly and leave every element from index 2 on untouched, but *)
(* element 1 does not receive element 0's former triple: it is set to       *)
(* {SSID, "ABCD", 4}.                                                       *)
C1_CopyThenOverwrite ==
    /\ pc = "l38" => Cur.elts = PreSwapElts
    /\ pc = "l46" =>
        /\ Len(Cur.elts) = Len(PreSwapElts)
        /\ Cur.elts[1] = PreSwapElts[2]
        /\ Cur.elts[2] = [ID |-> SsidId, len |-> AbcdLen, info |-> Abcd]
        /\ \A k \in 3..Len(Cur.elts) : Cur.elts[k] = PreSwapElts[k]

C1_Witness ==
    /\ pc = "l46"
    /\ Cur.elts[2] # PreSwapElts[1]
    /\ Cur.elts[1] # PreSwapElts[1]
    /\ Len(Cur.elts) > 2

(* C2: after lines 28-29 the serialised element 0 has length byte 32 and    *)
(* payload bytes equal to ssid_name, and parsing the serialised frame gives *)
(* back element 0's {id, length, payload}.                                  *)
C2_Set32RoundTrip ==
    pc = "l30" =>
        LET b == Serialize(Cur)
        IN  /\ Cur.elts[1].info = ssid_name
            /\ Cur.elts[1].len = SsidLen
            /\ b[HdrLen + 1] = Cur.elts[1].ID
            /\ b[HdrLen + 2] = 32
            /\ SubSeq(b, HdrLen + 3, HdrLen + 2 + 32) = ssid_name
            /\ ParseFrame(b).elts[1] = Cur.elts[1]

C2_Witness ==
    /\ pc = "l30"
    /\ Loaded.elts[1].len # 32
    /\ Len(Cur.elts) > 1

(* C3: with loop=1, as long as no interrupt arrives a frame is written      *)
(* again and again (from the send step the loop reaches the state after a   *)
(* write, and from there the send step again), and the loop is left only by *)
(* an interrupt.                                                            *)
C3_LoopsUntilInterrupted ==
    /\ [](pc = "sendp_send" => <>((pc = "sendp_sleep" /\ sent >= 1) \/ interrupted))
    /\ [](pc = "sendp_sleep" => <>(pc = "sendp_send" \/ interrupted))
    /\ [][InSendLoop /\ ~InSendLoop' => interrupted']_vars

C3_Witness ==
    /\ pc = "sendp_send"
    /\ sent = MaxSent
    /\ ~interrupted

(* C4: when the interface does not exist or raw sockets are not permitted,  *)
(* sendp ends in InterfaceError and no frame has been written.              *)
C4_InterfaceErrorSendsNothing ==
    /\ ifstate \in {"nodev", "noperm"} => pc = "error" /\ err = "InterfaceError"
    /\ err = "InterfaceError" =>
        /\ ifstate \in {"nodev", "noperm"}
        /\ sent = 0
        /\ wire_first = <<>>
        /\ wire_last = <<>>

C4_Witness ==
    /\ err = "InterfaceError"
    /\ ifstate = "nodev"

(* C5: a missing or corrupt capture ends the script in CaptureReadError, an *)
(* empty capture in EmptyCaptureError, in both cases with no frame bound;   *)
(* the mutation and transmit steps are reached only with the first frame of *)
(* the capture file.                                                        *)
C5_NoFrameFromBadCapture ==
    /\ pcap.status \in {"missing", "corrupt"} =>
        /\ frame = 0 /\ frames = <<>>
        /\ pc = "error" /\ err = "CaptureReadError"
    /\ (pcap.status = "ok" /\ pcap.frames = <<>>) =>
        /\ frame = 0 /\ frames = <<>>
        /\ pc \in {"l22", "error"}
        /\ pc = "error" => err = "EmptyCaptureError"
    /\ (pc \in Mutating \/ pc = "l50" \/ InSendLoop) =>
        /\ pcap.status = "ok" /\ pcap.frames # <<>>
        /\ frame = 1
        /\ pc = "l28" => Cur = Loaded

C5_Witness ==
    /\ pc = "error"
    /\ err = "EmptyCaptureError"
    /\ frame = 0

(* C6: a failure is final: the script is in the error state exactly when an *)
(* exception was raised, and from then on nothing changes: no later         *)
(* statement runs, nothing is retried, no frame is written.                 *)
C6_FailureIsFatal ==
    /\ [](pc = "error" <=> err # "none")
    /\ [][err # "none" => (pc' = "error" /\ err' = err /\ frames' = frames /\ frame' = frame
                           /\ sent' = sent /\ wire_last' = wire_last)]_vars

C6_Witness ==
    /\ pc = "error"
    /\ err = "IndexError"
    /\ Cur # Loaded

(* C7 as stated: once loaded, the sequence of frames and the contents of    *)
(* every frame in it stay as loaded.                                        *)
C7_CaptureImmutable ==
    pcap.status = "ok" => frames = ParsedCapture

(* C7 amended: after load the sequence keeps its length and order and every *)
(* frame other than the first keeps its as-loaded contents; the selected    *)
(* frame is the first frame of the loaded sequence itself, not a copy, so   *)
(* the loaded first frame is as loaded only until the first field mutation  *)
(* (line 28) and holds the mutated header and elements when transmit is     *)
(* called.                                                                  *)
C7_OnlyFirstFrameMutated ==
    pcap.status = "ok" =>
        /\ Len(frames) = Len(pcap.frames)
        /\ \A i \in 2..Len(frames) : frames[i] = ParsedCapture[i]
        /\ frame \in {0, 1}
        /\ pc \in {"l22", "l28"} => frames = ParsedCapture
        /\ pc = "l50" =>
            /\ frames[1].hdr.addr2 = NewAddr2
            /\ frames[1].elts[1] = ParsedCapture[1].elts[2]
            /\ frames[1].elts[2] = [ID |-> SsidId, len |-> AbcdLen, info |-> Abcd]
            /\ frames[1].elts[5].info = CountryInfo

C7_Witness ==
    /\ pc = "l50"
    /\ Len(frames) = 2
    /\ frames[1] # ParsedCapture[1]
    /\ frames[1].elts # ParsedCapture[1].elts

(* C8 as stated: between select_first and transmit the header fields keep   *)
(* their as-loaded values.                                                  *)
C8_HeaderUnchanged ==
    (pc \in Mutating \/ pc = "l50" \/ InSendLoop) => Cur.hdr = Loaded.hdr

(* C8 amended: the mutation phase changes information elements and one      *)
(* header field: line 30 sets the source address addr2 to                   *)
(* 40:e3:d6:bf:dd:01; addr1, addr3 and sequence control keep their loaded   *)
(* values.                                                                  *)
C8_OnlyAddr2Changed ==
    (pc \in Mutating \/ pc = "l50" \/ InSendLoop) =>
        /\ Cur.hdr.addr1 = Loaded.hdr.addr1
        /\ Cur.hdr.addr3 = Loaded.hdr.addr3
        /\ Cur.hdr.SC = Loaded.hdr.SC
        /\ Cur.hdr.addr2 = IF pc \in {"l28", "l29", "l30"} THEN Loaded.hdr.addr2 ELSE NewAddr2

C8_Witness ==
    /\ pc = "l50"
    /\ Cur.hdr.addr2 # Loaded.hdr.addr2
    /\ Cur.hdr.addr3 = Loaded.hdr.addr3

(* C9: a frame is written only once every mutation of lines 28-46 has been  *)
(* applied, the frame does not change afterwards, and every write of the    *)
(* loop puts the same bytes on the wire as the first.                       *)
C9_SendAfterAllMutations ==
    /\ sent = 0 => wire_first = <<>> /\ wire_last = <<>>
    /\ (pc \in Mutating \/ pc \in {"l21", "l22", "l50", "error"}) => sent = 0
    /\ sent > 0 =>
        /\ pc \in {"sendp_send", "sendp_sleep", "done"}
        /\ wire_last = wire_first
        /\ wire_first = Serialize(Cur)
        /\ Cur.hdr.addr2 = NewAddr2
        /\ Cur.elts[1] = Loaded.elts[2]
        /\ Cur.elts[2] = [ID |-> SsidId, len |-> AbcdLen, info |-> Abcd]
        /\ Cur.elts[5].info = CountryInfo

C9_Witness ==
    /\ sent = MaxSent
    /\ pc = "sendp_sleep"
    /\ Cur # Loaded

(* C10 as stated: from a well-formed loaded frame, every element has        *)
(* len = |info| when transmit is called.                                    *)
C10_WellFormedAtTransmit ==
    (pc = "l50" /\ WellFormedFrame(Loaded)) => WellFormedFrame(Cur)

(* C10 amended: from a well-formed loaded frame, when transmit is called    *)
(* every element other than element 4 has len = |info|; element 4 gets a    *)
(* 6-byte payload and keeps its loaded length field, so it has len = |info| *)
(* exactly when the loaded element 4 was 6 bytes long.                      *)
C10_WellFormedButElt4 ==
    (pc = "l50" /\ WellFormedFrame(Loaded)) =>
        /\ \A k \in 1..Len(Cur.elts) : k # 5 => WellFormedElt(Cur.elts[k])
        /\ Cur.elts[5].len = Loaded.elts[5].len
        /\ WellFormedElt(Cur.elts[5]) <=> Loaded.elts[5].len = Len(CountryInfo)

C10_Witness ==
    /\ pc = "l50"
    /\ WellFormedFrame(Loaded)
    /\ ~WellFormedElt(Cur.elts[5])
    /\ WellFormedElt(Cur.elts[1])

====
